---- MODULE Spec2Model ----
(***************************************************************************)
(* Model of the PDF RAG API: the two request handlers of main.py           *)
(* (upload_pdf, query_pdf), the ingest and query functions of              *)
(* services/rag_service.py and process_pdf of utils/file_handler.py.       *)
(* Strings that the code inspects (file names, paths) are sequences of     *)
(* one-character strings, so that endswith, basename and join are computed *)
(* character by character as os.path does.                                 *)
(***************************************************************************)
EXTENDS Integers, Sequences, FiniteSets, TLC

\* ------------------------------------------------------------------ bounds
MaxReq == 2        \* number of HTTP requests in one run
MaxChunks == 1     \* largest number of chunks the splitter makes of one page
NBlocks == 2       \* number of write() calls copyfileobj makes for one file

\* ------------------------------------------------------------- input names
a_pdf == <<"a", ".", "p", "d", "f">>
b_pdf == <<"b", ".", "p", "d", "f">>
d_a_pdf == <<"d", "/", "a", ".", "p", "d", "f">>
a_PDF == <<"a", ".", "P", "D", "F">>
EmptyName == << >>

UploadNames == {a_pdf, b_pdf, d_a_pdf, a_PDF}
QueryNames == {a_pdf, b_pdf, d_a_pdf, EmptyName}
QueryTexts == {"q1", "q2"}

\* An uploaded body: unreadable bytes (ok = FALSE) or a PDF whose i-th page
\* is split into pages[i] chunks (0 for a page without extractable text).
PageSeqs == {<< >>} \cup {<<n>> : n \in 0..MaxChunks} \cup {<<1, 1>>}
Pdfs == {[ok |-> FALSE, pages |-> << >>]} \cup {[ok |-> TRUE, pages |-> s] : s \in PageSeqs}
NoPdf == [ok |-> FALSE, pages |-> << >>]

\* ------------------------------------------------------------ core/config
DotPdf == <<".", "p", "d", "f">>
BASE_DIR == <<"/", "a", "p", "p">>
UPLOAD_DIRECTORY == BASE_DIR \o <<"/", "u", "p", "l", "o", "a", "d", "s">>
VECTOR_STORE_DIRECTORY == BASE_DIR \o <<"/", "v", "e", "c", "t", "o", "r", "_", "s", "t", "o", "r", "e">>
TopK == 4

VARIABLES upload_dir, vector_store, kind, filename, pdf, query, pc, running, local, resp

vars == <<upload_dir, vector_store, kind, filename, pdf, query, pc, running, local, resp>>

Reqs == 1..MaxReq

\* ---------------------------------------------------------------- strings
\* str.endswith, case folded: the variant that also accepts ".PDF".
lower(c) == CASE c = "P" -> "p" [] c = "D" -> "d" [] c = "F" -> "f" [] OTHER -> c

endswith_nocase(s, suffix) ==
  /\ Len(s) >= Len(suffix)
  /\ \A i \in 1..Len(suffix) : lower(s[Len(s) - Len(suffix) + i]) = lower(suffix[i])

\* str.endswith
endswith(s, suffix) ==
  /\ Len(s) >= Len(suffix)
  /\ SubSeq(s, Len(s) - Len(suffix) + 1, Len(s)) = suffix

LastSlash(p) ==
  LET idx == {i \in 1..Len(p) : p[i] = "/"}
  IN IF idx = {} THEN 0 ELSE CHOOSE i \in idx : \A j \in idx : j <= i

\* os.path.basename (posix): what follows the last "/"
basename(p) == SubSeq(p, LastSlash(p) + 1, Len(p))

\* os.path.join (posix) of two parts
join(a, b) ==
  IF Len(b) > 0 /\ b[1] = "/" THEN b
  ELSE IF a = << >> \/ a[Len(a)] = "/" THEN a \o b
  ELSE a \o <<"/">> \o b

\* the "/"-separated components of a path, empty ones included
Split(p) ==
  LET cuts == {0} \cup {i \in 1..Len(p) : p[i] = "/"} \cup {Len(p) + 1}
      Cut(k) == CHOOSE c \in cuts : Cardinality({d \in cuts : d < c}) = k
  IN [k \in 1..(Cardinality(cuts) - 1) |-> SubSeq(p, Cut(k - 1) + 1, Cut(k) - 1)]

Front(s) == SubSeq(s, 1, Len(s) - 1)

\* ------------------------------------------------------------- filesystem
\* A node is the normalised list of components below "/".  The directories
\* are the ones on_startup creates (and their ancestors); the regular files
\* are the entries of upload_dir.
RootNode == << >>
BaseNode == Tail(Split(BASE_DIR))
UploadsNode == Tail(Split(UPLOAD_DIRECTORY))
VectorNode == Tail(Split(VECTOR_STORE_DIRECTORY))

IsDir(n) == n \in {RootNode, BaseNode, UploadsNode, VectorNode}

IsFile(n) ==
  /\ Len(n) = Len(UploadsNode) + 1
  /\ Front(n) = UploadsNode
  /\ n[Len(n)] \in DOMAIN upload_dir

Missing == [ok |-> FALSE, at |-> RootNode]

\* one component further from a directory: "" and "." stay, ".." goes up
StepInto(cur, c) ==
  IF ~cur.ok \/ ~IsDir(cur.at) THEN Missing
  ELSE LET nxt == IF c \in {<< >>, <<".">>} THEN cur.at
                  ELSE IF c = <<".", ".">> THEN (IF cur.at = RootNode THEN RootNode ELSE Front(cur.at))
                  ELSE Append(cur.at, c)
       IN IF IsDir(nxt) \/ IsFile(nxt) THEN [ok |-> TRUE, at |-> nxt] ELSE Missing

\* path resolution, component by component (the singleton sets bind the
\* node reached so far and the components left)
RECURSIVE Walk(_, _)
Walk(cur, comps) ==
  IF comps = << >> THEN cur
  ELSE CHOOSE r \in {Walk(n, t) : n \in {StepInto(cur, Head(comps))}, t \in {Tail(comps)}} : TRUE

Resolve(path) == CHOOSE r \in {Walk([ok |-> TRUE, at |-> RootNode], c) : c \in {Split(path)}} : TRUE

\* A check of index membership in place of the check of the disk.
exists_in_index(path) == \E i \in DOMAIN vector_store : vector_store[i].source = basename(path)

\* os.path.exists
exists(path) == Resolve(path).ok

\* open(path, "wb") can create or truncate path: its directory is the
\* upload directory and its last component names a regular file.
Openable(path) ==
  \E comps \in {Split(path)} :
    \E parent \in {Walk([ok |-> TRUE, at |-> RootNode], Front(comps))} :
      /\ parent.ok
      /\ parent.at = UploadsNode
      /\ comps[Len(comps)] \notin {<< >>, <<".">>, <<".", ".">>}

\* file.write(block) at offset pos of a file (1-based block offsets)
Hole == [by |-> 0, blk |-> 0]

WriteAt(content, pos, block) ==
  [i \in 1..(IF pos > Len(content) THEN pos ELSE Len(content)) |->
     IF i = pos THEN block ELSE IF i <= Len(content) THEN content[i] ELSE Hole]

Body(w) == [i \in 1..NBlocks |-> [by |-> w, blk |-> i]]

\* ------------------------------------------------- utils/file_handler.py
\* The regular file a path names, as (present, content).
ReadFile(path) ==
  CHOOSE f \in {IF r.ok /\ IsFile(r.at)
                THEN [ok |-> TRUE, content |-> upload_dir[r.at[Len(r.at)]]]
                ELSE [ok |-> FALSE, content |-> << >>] : r \in {Resolve(path)}} : TRUE

\* PyPDFLoader(file_path).load(): the pages of the PDF whose complete body
\* is on disk; it throws on a missing, truncated or mixed file and on bytes
\* that are no PDF.
LoadPdf(path) ==
  CHOOSE l \in {LET ws == {w \in Reqs : kind[w] = "upload" /\ f.content = Body(w)}
                IN IF ~f.ok \/ ws = {} THEN [raised |-> TRUE, by |-> 0, pages |-> << >>]
                   ELSE LET w == CHOOSE x \in ws : TRUE
                        IN IF pdf[w].ok THEN [raised |-> FALSE, by |-> w, pages |-> pdf[w].pages]
                           ELSE [raised |-> TRUE, by |-> 0, pages |-> << >>] : f \in {ReadFile(path)}} : TRUE

\* A splitter that keeps a page without text as one (empty) chunk.
ChunksOfPage_keep_empty(n) == IF n = 0 THEN 1 ELSE n

\* number of chunks RecursiveCharacterTextSplitter makes of a page of n
\* chunk-sized windows of text
ChunksOfPage(n) == n

\* text_splitter.split_documents(documents): the chunks of every page in
\* page order (At: the (page, part) pairs that exist); each keeps the loader's metadata (source = file_path, page).
split_documents(w, pages, path) ==
  LET Pos == {<<i, k>> : i \in DOMAIN pages, k \in 1..(MaxChunks + 1)}
      At == {x \in Pos : x[2] <= ChunksOfPage(pages[x[1]])}
      Nth(j) == CHOOSE x \in At : Cardinality({y \in At : y[1] < x[1] \/ (y[1] = x[1] /\ y[2] <= x[2])}) = j
  IN [j \in 1..Cardinality(At) |-> [source |-> path, text |-> <<w, Nth(j)[1], Nth(j)[2]>>]]

process_pdf(file_path) ==
  CHOOSE r \in {IF l.raised THEN [raised |-> TRUE, docs |-> << >>]
                ELSE IF l.pages = << >> THEN [raised |-> FALSE, docs |-> << >>]
                ELSE [raised |-> FALSE, docs |-> split_documents(l.by, l.pages, file_path)]
                  : l \in {LoadPdf(file_path)}} : TRUE

\* ------------------------------------------------ services/rag_service.py
\* "if docs is None" in place of "if not docs": never true of a list.
no_documents_is_none(docs) == FALSE

\* "if not docs"
no_documents(docs) == docs = << >>

\* The loop that tags the chunks, left out: chunks keep the loader's source.
set_source_skipped(docs, file_name) == docs

\* for doc in docs: doc.metadata["source"] = file_name
set_source(docs, file_name) == [i \in DOMAIN docs |-> [docs[i] EXCEPT !.source = file_name]]

\* An index keyed by source: adding chunks of a source replaces its records.
add_documents_replacing(store, docs) ==
  LET Other(r) == \A i \in DOMAIN docs : docs[i].source # r.source
  IN SelectSeq(store, Other) \o docs

\* vector_store.add_documents(docs): every chunk becomes a new record
add_documents(store, docs) == store \o docs

\* vector_store.as_retriever(search_kwargs={"filter": {"source": file_name}}):
\* at most TopK of the records whose source is file_name
retrieve(store, file_name) ==
  LET Match(r) == r.source = file_name
      hits == SelectSeq(store, Match)
  IN SubSeq(hits, 1, IF Len(hits) < TopK THEN Len(hits) ELSE TopK)

\* ------------------------------------------------------- main.py responses
Response(status, detail, name) == [status |-> status, detail |-> detail, file_name |-> name]
NoResp == Response(0, "", << >>)

\* Python's isinstance over the exception classes that occur: all of them
\* derive from Exception.
IsInstance(cls, base) == cls = base \/ base = "Exception"

\* the except clauses of upload_pdf's second try block, in order
upload_except(exc) ==
  IF IsInstance(exc.cls, "ValueError") THEN Response(500, "Failed to process PDF", << >>)
  ELSE IF IsInstance(exc.cls, "Exception") THEN Response(500, "An error occurred during file processing", << >>)
  ELSE exc.resp

NoLocal == [secure_filename |-> << >>, file_path |-> << >>, written |-> 0, saved |-> FALSE,
            docs |-> << >>, retrieved |-> << >>, invoked |-> FALSE]

\* ------------------------------------------------------------------- Init
Init ==
  /\ upload_dir = << >>
  /\ vector_store = << >>
  /\ kind = [p \in Reqs |-> "none"]
  /\ filename = [p \in Reqs |-> << >>]
  /\ pdf = [p \in Reqs |-> NoPdf]
  /\ query = [p \in Reqs |-> ""]
  /\ pc = [p \in Reqs |-> "idle"]
  /\ running = 0
  /\ local = [p \in Reqs |-> NoLocal]
  /\ resp = [p \in Reqs |-> NoResp]

\* ------------------------------------------------------------- event loop
\* Handlers run on a pool of threads: one may start while another runs.
CanStart_threaded(p) == TRUE

\* upload_pdf and query_pdf are coroutines ("async def") without a single
\* await: once the event loop enters a handler it runs it to its response
\* before it enters another.
CanStart(p) == running = 0

\* The handler returns: the response goes out and the request's body, query
\* text and locals are released.  saved and invoked stay as a record of what
\* the request did.
Released(l) == [NoLocal EXCEPT !.saved = l.saved, !.invoked = l.invoked]

Finish(p, r, l) ==
  /\ pc' = [pc EXCEPT ![p] = "done"]
  /\ resp' = [resp EXCEPT ![p] = r]
  /\ local' = [local EXCEPT ![p] = Released(l)]
  /\ pdf' = [pdf EXCEPT ![p] = NoPdf]
  /\ query' = [query EXCEPT ![p] = ""]
  /\ running' = 0

\* A client sends a request; the slots are taken in order.
Arrives(p) ==
  /\ pc[p] = "idle"
  /\ \A q \in Reqs : q < p => pc[q] # "idle"
  /\ running = 0

ReceiveUpload(p) ==
  /\ Arrives(p)
  /\ \E f \in UploadNames, d \in Pdfs :
       /\ kind' = [kind EXCEPT ![p] = "upload"]
       /\ filename' = [filename EXCEPT ![p] = f]
       /\ pdf' = [pdf EXCEPT ![p] = d]
  /\ pc' = [pc EXCEPT ![p] = "received"]
  /\ UNCHANGED <<upload_dir, vector_store, query, running, local, resp>>

ReceiveQuery(p) ==
  /\ Arrives(p)
  /\ \E f \in QueryNames, q \in QueryTexts :
       /\ kind' = [kind EXCEPT ![p] = "query"]
       /\ filename' = [filename EXCEPT ![p] = f]
       /\ query' = [query EXCEPT ![p] = q]
  /\ pc' = [pc EXCEPT ![p] = "received"]
  /\ UNCHANGED <<upload_dir, vector_store, pdf, running, local, resp>>

Start(p) ==
  /\ pc[p] = "received"
  /\ CanStart(p)
  /\ running' = p
  /\ pc' = [pc EXCEPT ![p] = IF kind[p] = "upload" THEN "validate" ELSE "check"]
  /\ UNCHANGED <<upload_dir, vector_store, kind, filename, pdf, query, local, resp>>

\* -------------------------------------------------------------- upload_pdf
\* lines 75-83: the type check, then the name and path of the stored file
UploadValidate(p) ==
  /\ pc[p] = "validate"
  /\ IF ~endswith(filename[p], DotPdf)
     THEN Finish(p, Response(400, "Invalid file type", << >>), local[p])
     ELSE /\ local' = [local EXCEPT ![p].secure_filename = basename(filename[p]),
                                    ![p].file_path = join(UPLOAD_DIRECTORY, basename(filename[p]))]
          /\ pc' = [pc EXCEPT ![p] = "open"]
          /\ UNCHANGED <<resp, running, pdf, query>>
  /\ UNCHANGED <<upload_dir, vector_store, kind, filename>>

\* line 86: open(file_path, "wb") creates or truncates the file, or throws
UploadOpen(p) ==
  /\ pc[p] = "open"
  /\ \E io_ok \in BOOLEAN :
       IF io_ok /\ Openable(local[p].file_path)
       THEN /\ upload_dir' = [n \in DOMAIN upload_dir \cup {basename(local[p].file_path)} |->
                                IF n = basename(local[p].file_path) THEN << >> ELSE upload_dir[n]]
            /\ pc' = [pc EXCEPT ![p] = "copy"]
            /\ UNCHANGED <<resp, running, pdf, query, local>>
       ELSE /\ Finish(p, Response(500, "Failed to save uploaded file", << >>), local[p])
            /\ UNCHANGED upload_dir
  /\ UNCHANGED <<vector_store, kind, filename>>

\* line 87: shutil.copyfileobj writes the body block by block; a write may
\* throw and leave the blocks written so far.  After the last block the
\* with statement closes the file.
UploadCopy(p) ==
  /\ pc[p] = "copy"
  /\ \E io_ok \in BOOLEAN :
       IF io_ok
       THEN LET n == basename(local[p].file_path)
                k == local[p].written + 1
            IN /\ upload_dir' = [upload_dir EXCEPT ![n] = WriteAt(upload_dir[n], k, [by |-> p, blk |-> k])]
               /\ local' = [local EXCEPT ![p].written = k, ![p].saved = (k = NBlocks)]
               /\ pc' = [pc EXCEPT ![p] = IF k = NBlocks THEN "process" ELSE "copy"]
               /\ UNCHANGED <<resp, running, pdf, query>>
       ELSE /\ Finish(p, Response(500, "Failed to save uploaded file", << >>), local[p])
            /\ UNCHANGED upload_dir
  /\ UNCHANGED <<vector_store, kind, filename>>

\* line 99 and load_pdf_to_vector_store lines 79-86: process_pdf, the
\* empty check and the tagging of the chunks
UploadProcess(p) ==
  /\ pc[p] = "process"
  /\ \E r \in {process_pdf(local[p].file_path)} :
        IF r.raised
        THEN Finish(p, upload_except([cls |-> "ValueError", resp |-> NoResp]), local[p])
        ELSE IF no_documents(r.docs)
        THEN Finish(p, upload_except([cls |-> "HTTPException",
                        resp |-> Response(400, "The PDF file appears to be empty or corrupted", << >>)]),
                    local[p])
        ELSE /\ local' = [local EXCEPT ![p].docs = set_source(r.docs, local[p].secure_filename)]
             /\ pc' = [pc EXCEPT ![p] = "add"]
             /\ UNCHANGED <<resp, running, pdf, query>>
  /\ UNCHANGED <<upload_dir, vector_store, kind, filename>>

\* load_pdf_to_vector_store line 88 and upload_pdf lines 107-110: the chunks
\* are stored and the 201 is returned, or add_documents throws after it has
\* stored n of them
UploadAdd(p) ==
  /\ pc[p] = "add"
  /\ \E n \in 0..Len(local[p].docs) :
       /\ vector_store' = add_documents(vector_store, SubSeq(local[p].docs, 1, n))
       /\ IF n = Len(local[p].docs)
          THEN Finish(p, Response(201, "File processed and added to vector store successfully",
                                  local[p].secure_filename), local[p])
          ELSE Finish(p, upload_except([cls |-> "RuntimeError", resp |-> NoResp]), local[p])
  /\ UNCHANGED <<upload_dir, kind, filename>>

\* --------------------------------------------------------------- query_pdf
\* The path built from the wrong configured directory.
query_file_path_vector_dir(file_name) == join(VECTOR_STORE_DIRECTORY, file_name)

\* line 140: file_path = os.path.join(UPLOAD_DIRECTORY, request.file_name)
query_file_path(file_name) == join(UPLOAD_DIRECTORY, file_name)

\* lines 140-146: the existence check
QueryCheck(p) ==
  /\ pc[p] = "check"
  /\ IF ~exists(query_file_path(filename[p]))
     THEN Finish(p, Response(404, "File not found", << >>), local[p])
     ELSE /\ pc' = [pc EXCEPT ![p] = "retrieve"]
          /\ UNCHANGED <<resp, running, pdf, query, local>>
  /\ UNCHANGED <<upload_dir, vector_store, kind, filename>>

\* query_rag lines 109-122, first half of rag_chain.invoke: the retriever
QueryRetrieve(p) ==
  /\ pc[p] = "retrieve"
  /\ \E ok \in BOOLEAN :
       IF ok
       THEN /\ local' = [local EXCEPT ![p].retrieved = retrieve(vector_store, filename[p]),
                                      ![p].invoked = TRUE]
            /\ pc' = [pc EXCEPT ![p] = "generate"]
            /\ UNCHANGED <<resp, running, pdf, query>>
       ELSE Finish(p, Response(500, "An error occurred while generating the answer", << >>),
                   [local[p] EXCEPT !.invoked = TRUE])
  /\ UNCHANGED <<upload_dir, vector_store, kind, filename>>

\* second half of rag_chain.invoke: prompt, remote completion, and the 200
QueryGenerate(p) ==
  /\ pc[p] = "generate"
  /\ \E ok \in BOOLEAN :
       IF ok
       THEN Finish(p, Response(200, "answer", filename[p]), local[p])
       ELSE Finish(p, Response(500, "An error occurred while generating the answer", << >>), local[p])
  /\ UNCHANGED <<upload_dir, vector_store, kind, filename>>

Step ==
  \E p \in Reqs :
    \/ Start(p)
    \/ UploadValidate(p)
    \/ UploadOpen(p)
    \/ UploadCopy(p)
    \/ UploadProcess(p)
    \/ UploadAdd(p)
    \/ QueryCheck(p)
    \/ QueryRetrieve(p)
    \/ QueryGenerate(p)

Next ==
  \/ \E p \in Reqs : ReceiveUpload(p)
  \/ \E p \in Reqs : ReceiveQuery(p)
  \/ Step

Spec == Init /\ [][Next]_vars

\* A handler that has been entered runs on: the loop never abandons it.
FairSpec == Spec /\ WF_vars(Step)

\* ===================================================== checked properties
\* What the properties say about the inputs, stated without the handlers'
\* own helpers.
PdfNamed(n) ==
  /\ Len(n) >= 4
  /\ n[Len(n) - 3] = "." /\ n[Len(n) - 2] = "p" /\ n[Len(n) - 1] = "d" /\ n[Len(n)] = "f"

\* the name an uploaded file is expected to be stored under
Sanitized(n) == IF n = d_a_pdf THEN a_pdf ELSE n

RECURSIVE TotalChunks(_)
TotalChunks(pages) == IF pages = << >> THEN 0 ELSE Head(pages) + TotalChunks(Tail(pages))

RecordsOf(name) == {i \in DOMAIN vector_store : vector_store[i].source = name}
RecordsBy(w) == {i \in DOMAIN vector_store : vector_store[i].text[1] = w}

Uploads == {p \in Reqs : kind[p] = "upload"}
Queries == {p \in Reqs : kind[p] = "query"}

\* names some upload request has saved completely
SavedNames == {Sanitized(filename[p]) : p \in {u \in Uploads : local[u].saved}}

IsPrefix(s, t) == Len(s) <= Len(t) /\ SubSeq(t, 1, Len(s)) = s

EmptyDetail == "The PDF file appears to be empty or corrupted"

\* C1: an upload with a ".pdf" name that was saved and whose segmenter
\* returns an empty chunk sequence is answered 400 "empty or corrupted".
C1_EmptyPdfAnswered400 ==
  [][\A p \in Reqs :
       (/\ pc[p] = "process"
        /\ pc'[p] = "done"
        /\ ~process_pdf(local[p].file_path).raised
        /\ process_pdf(local[p].file_path).docs = << >>)
       => (resp'[p].status = 400 /\ resp'[p].detail = EmptyDetail)]_vars

\* C2: an upload whose name does not end in ".pdf" is answered 400 by a
\* handler that never reaches the disk write: none of its steps changes
\* the upload directory.
C2_NonPdfRejectedDirUnchanged ==
  [][\A p \in Reqs :
       (kind'[p] = "upload" /\ ~PdfNamed(filename'[p]) /\ pc[p] # pc'[p])
       => (/\ upload_dir' = upload_dir
           /\ pc'[p] \in {"received", "validate", "done"}
           /\ pc'[p] = "done" => (resp'[p].status = 400 /\ resp'[p].detail = "Invalid file type"))]_vars

C2_Witness ==
  \E p \in Uploads :
    /\ ~PdfNamed(filename[p])
    /\ pc[p] = "done"
    /\ resp[p].status = 400
    /\ DOMAIN upload_dir # {}

\* C3: a query for a file name that no earlier upload saved is answered 404
\* at the existence check, without the answer generator being invoked.
C3_UnknownFile404 ==
  [][\A q \in Reqs :
       (pc[q] = "check" /\ pc'[q] # "check" /\ filename[q] \notin SavedNames)
       => (pc'[q] = "done" /\ resp'[q].status = 404 /\ ~local'[q].invoked)]_vars

\* C4: a 201 names a file that is in the upload directory and has at least
\* one record in the index, stored by that very request after its save.
C4_CreatedMeansSavedAndIndexed ==
  \A p \in Uploads :
    (pc[p] = "done" /\ resp[p].status = 201)
    => (/\ resp[p].file_name \in DOMAIN upload_dir
        /\ local[p].saved
        /\ \E i \in RecordsBy(p) : vector_store[i].source = resp[p].file_name)

C4_Witness == \E p \in Uploads : pc[p] = "done" /\ resp[p].status = 201

\* C5: a 201 upload appends exactly its chunks to the index, no step ever
\* removes or replaces a record, and two 201 uploads of one stored name both
\* have their records in the index under that name.
C5_IngestOnlyAppends ==
  /\ [][/\ IsPrefix(vector_store, vector_store')
        /\ \A p \in Reqs :
             (pc[p] = "add" /\ pc'[p] = "done" /\ resp'[p].status = 201)
             => (/\ vector_store' = vector_store \o local[p].docs
                 /\ Len(local[p].docs) >= 1
                 /\ Cardinality({i \in DOMAIN vector_store' : vector_store'[i].source = resp'[p].file_name})
                      = Cardinality(RecordsOf(resp'[p].file_name)) + Len(local[p].docs))]_vars
  /\ [](\A p, q \in Uploads :
          (p # q /\ resp[p].status = 201 /\ resp[q].status = 201 /\ resp[p].file_name = resp[q].file_name)
          => (RecordsBy(p) # {} /\ RecordsBy(q) # {} /\ RecordsBy(p) \cup RecordsBy(q) \subseteq RecordsOf(resp[p].file_name)))

C5_Witness ==
  \E p, q \in Uploads :
    p # q /\ resp[p].status = 201 /\ resp[q].status = 201 /\ resp[p].file_name = resp[q].file_name

\* C6: every record's source is the sanitized base name of the upload that
\* ingested it, which is the name the file was saved under and the name a
\* 201 returns; a query retrieves only records whose source is its file_name.
C6_SourceIsStoredName ==
  /\ \A i \in DOMAIN vector_store :
       LET r == vector_store[i]
           w == r.text[1]
       IN /\ w \in Uploads
          /\ r.source = Sanitized(filename[w])
          /\ r.source \in DOMAIN upload_dir
          /\ (pc[w] = "done" /\ resp[w].status = 201) => resp[w].file_name = r.source
  /\ \A q \in Queries :
       \A j \in DOMAIN local[q].retrieved :
         /\ local[q].retrieved[j].source = filename[q]
         /\ \E i \in DOMAIN vector_store : vector_store[i] = local[q].retrieved[j]

C6_Witness ==
  \E q \in Queries, w \in Uploads :
    /\ pc[q] = "generate"
    /\ filename[w] = d_a_pdf
    /\ \E j \in DOMAIN local[q].retrieved : local[q].retrieved[j].text[1] = w

\* C7: no step of an upload that is rejected for its type, that has not
\* completed its save, or whose body is unreadable or yields no chunk
\* changes the index; every record comes from a saved upload with a ".pdf"
\* name.
C7_FailedUploadLeavesIndex ==
  /\ [][\A p \in Reqs :
          (/\ kind'[p] = "upload"
           /\ (pc[p] # pc'[p] \/ local[p] # local'[p])
           /\ \/ ~PdfNamed(filename'[p])
              \/ ~local[p].saved
              \/ ~pdf[p].ok
              \/ TotalChunks(pdf[p].pages) = 0)
          => vector_store' = vector_store]_vars
  /\ [](\A i \in DOMAIN vector_store :
          LET w == vector_store[i].text[1]
          IN w \in Uploads /\ PdfNamed(filename[w]) /\ local[w].saved)

C7_Witness ==
  \E p \in Uploads :
    /\ pc[p] = "done"
    /\ local[p].saved
    /\ resp[p].status = 500
    /\ resp[p].detail = "Failed to process PDF"
    /\ RecordsBy(p) = {}
    /\ vector_store # << >>

\* an upload that was saved and then answered 500
FailedAfterSave(p) ==
  /\ p \in Uploads
  /\ pc[p] = "done"
  /\ local[p].saved
  /\ resp[p].status = 500

\* C8: an upload whose save succeeded and whose processing or ingest failed
\* is answered 500 and its file stays in the upload directory (no step
\* removes a file), and a later query for that name passes the existence
\* check.
C8_FailedIngestKeepsFile ==
  [][/\ DOMAIN upload_dir \subseteq DOMAIN upload_dir'
     /\ \A p \in Reqs :
          (pc[p] \in {"process", "add"} /\ pc'[p] = "done" /\ resp'[p].status # 201)
          => (/\ resp'[p].status = 500
              /\ upload_dir' = upload_dir
              /\ Sanitized(filename[p]) \in DOMAIN upload_dir')
     /\ \A q \in Reqs :
          (/\ pc[q] = "check"
           /\ pc'[q] # "check"
           /\ \E p \in Reqs : FailedAfterSave(p) /\ Sanitized(filename[p]) = filename[q])
          => pc'[q] = "retrieve"]_vars

C8_Witness ==
  \E p \in Uploads, q \in Queries :
    /\ FailedAfterSave(p)
    /\ filename[q] = Sanitized(filename[p])
    /\ local[q].invoked
    /\ RecordsOf(filename[q]) = {}

\* the handler has the stored file open for writing
Writing(p) == pc[p] = "copy"

SameStoredFile(p, q) ==
  /\ p \in Uploads /\ q \in Uploads
  /\ Sanitized(filename[p]) = Sanitized(filename[q])

C10_IndexedImpliesOnDisk ==
  /\ [](\A i \in DOMAIN vector_store : vector_store[i].source \in DOMAIN upload_dir)
  /\ [][\A q \in Reqs :
          /\ (pc[q] = "check" /\ pc'[q] # "check" /\ RecordsOf(filename[q]) # {})
             => pc'[q] = "retrieve"
          /\ (kind'[q] = "query" /\ (pc[q] # pc'[q] \/ local[q] # local'[q]))
             => (upload_dir' = upload_dir /\ vector_store' = vector_store)]_vars

C10_Witness ==
  \E q \in Queries :
    /\ pc[q] = "done"
    /\ resp[q].status = 200
    /\ RecordsOf(filename[q]) # {}
====
